---- MODULE Spec2Model ----
(***************************************************************************)
(* Model of the product data-access layer (src/unnamed/part_000):          *)
(*   - getProducts: query builder + swallow-and-degrade error handling     *)
(*   - the seven cache-wrapped readers built on unstable_cache             *)
(*                                                                         *)
(* JavaScript strings are modelled as sequences of one-character strings,  *)
(* so that split / Number / parseFloat / template literals are computed    *)
(* the way the runtime computes them.  The value `undefined` is the        *)
(* sentinel UNDEF and a string[] parameter value is the sentinel ARR; no   *)
(* string over one-character elements equals either.                       *)
(***************************************************************************)
EXTENDS Integers, Sequences, FiniteSets, TLC

VARIABLES
    \* ---- getProducts ----
    input,      \* the SearchParams object handed to getProducts
    pc,         \* "start" | "done"
    result,     \* what the call gave its caller
    aggregated, \* pipelines handed to ProductModel.aggregate (0 or 1)
    counted,    \* filters handed to ProductModel.countDocuments (0 or 1)
    parsed,     \* "no" | "ok" | "threw": what getProductsSchema.parse did
    failedStep, \* history: the awaited step that failed, or "none"
    \* ---- cache-wrapped readers ----
    cache,      \* the process-wide unstable_cache store: key -> entry
    clock,      \* seconds
    ncalls,     \* number of reader calls made so far
    stored,     \* history: key -> outcome and time of the callback's last run
    last        \* history: the most recent reader call

prodVars  == <<input, pc, result, aggregated, counted, parsed, failedStep>>
cacheVars == <<cache, clock, ncalls, stored, last>>
vars      == <<input, pc, result, aggregated, counted, parsed, failedStep,
               cache, clock, ncalls, stored, last>>

(***************************************************************************)
(* Bounds                                                                  *)
(***************************************************************************)
MaxNumLen    == 2   \* length of the page / per_page strings
MaxRangeLen  == 3   \* length of the price_range string
MaxSortParts == 3   \* dot-separated parts of the sort string
MaxTotal     == 3   \* documents countDocuments may report
MaxCalls     == 2   \* reader calls in one behaviour
MaxTicks     == 3   \* clock advances in one behaviour

(***************************************************************************)
(* JavaScript values and string primitives                                 *)
(***************************************************************************)
UNDEF == <<"undefined">>
ARR   == <<"string[]">>

IsString(v) == v # UNDEF /\ v # ARR

\* All strings over `alphabet` of length at most n.
StrsUpTo(alphabet, n) == UNION {[1..k -> alphabet] : k \in 0..n}

Digits == <<"0", "1", "2", "3", "4", "5", "6", "7", "8", "9">>
IsDigit(c) == \E i \in 1..10 : Digits[i] = c
DigitVal(c) == (CHOOSE i \in 1..10 : Digits[i] = c) - 1

AllDigits(s) == \A i \in 1..Len(s) : IsDigit(s[i])

RECURSIVE DecVal(_)
DecVal(s) == IF s = <<>> THEN 0
             ELSE 10 * DecVal(SubSeq(s, 1, Len(s) - 1)) + DigitVal(s[Len(s)])

NaN == [nan |-> TRUE, val |-> 0]
Num(n) == [nan |-> FALSE, val |-> n]

\* Number(v): undefined -> NaN, "" -> 0, an optionally signed run of digits
\* -> its value, anything else -> NaN.  (A two-element array converts to NaN.)
Number(v) ==
    IF ~IsString(v) THEN NaN
    ELSE IF v = <<>> THEN Num(0)
    ELSE IF AllDigits(v) THEN Num(DecVal(v))
    ELSE IF v[1] = "-" /\ Len(v) > 1 /\ AllDigits(Tail(v)) THEN Num(0 - DecVal(Tail(v)))
    ELSE NaN

\* x || d for a number x: NaN and 0 are falsy.
OrDefault(x, d) == IF x.nan \/ x.val = 0 THEN d ELSE x.val

\* s.split(sep) for a one-character separator: never empty, "" -> [""].
RECURSIVE Split(_, _)
Split(s, sep) ==
    IF \A i \in 1..Len(s) : s[i] # sep THEN <<s>>
    ELSE LET i == CHOOSE j \in 1..Len(s) :
                     s[j] = sep /\ \A k \in 1..(j - 1) : s[k] # sep
         IN  <<SubSeq(s, 1, i - 1)>> \o Split(SubSeq(s, i + 1, Len(s)), sep)

\* v?.split(sep) ?? dflt
SplitOr(v, sep, dflt) == IF v = UNDEF THEN dflt ELSE Split(v, sep)

\* Array destructuring: the i-th element, undefined past the end.
At(a, i) == IF i <= Len(a) THEN a[i] ELSE UNDEF

\* Math.ceil(a / b) for b > 0.
CeilDiv(a, b) == IF a % b = 0 THEN a \div b ELSE (a \div b) + 1

EmptyObj == <<>>

(***************************************************************************)
(* getProducts (lines 17-102)                                              *)
(***************************************************************************)
ParamNames == {"page", "per_page", "sort", "categories", "subcategories", "price_range"}

\* connectDb (../db): awaited before every data operation; it either
\* ensures the connection (TRUE) or rejects (FALSE).
connectDb == BOOLEAN

\* getProductsSchema.parse (@/lib/validations/product): every search
\* parameter is an optional string, so a string[] value fails validation;
\* a valid object is returned as it is.
getProductsSchemaThrows(in) == \E k \in ParamNames : in[k] = ARR

getProductsSchemaParse(in) == in

\* [sortField, sortOrder] of lines 27-29.
SortTuple(search) ==
    LET parts == SplitOr(search.sort, ".", <<<<"c","r","e","a","t","e","d","A","t">>, <<"d","e","s","c">>>>)
    IN  <<At(parts, 1), At(parts, 2)>>

\* The direction of line 84: sortOrder === 'asc' ? 1 : -1
SortDirection_inverted(sortOrder) == IF sortOrder = <<"a","s","c">> THEN -1 ELSE 1
SortDirection(sortOrder) == IF sortOrder = <<"a","s","c">> THEN 1 ELSE -1

\* filter.price of lines 43-48
PriceClause(minPrice, maxPrice) ==
    (IF maxPrice # UNDEF THEN "$lte" :> maxPrice ELSE EmptyObj)
    @@ (IF minPrice # UNDEF THEN "$gte" :> minPrice ELSE EmptyObj)

\* The filter of lines 31-48.
BuildFilter(search) ==
    LET categoryIds    == SplitOr(search.categories, ".", <<>>)
        subcategoryIds == SplitOr(search.subcategories, ".", <<>>)
        range          == SplitOr(search.price_range, "-", <<>>)
        minPrice       == At(range, 1)
        maxPrice       == At(range, 2)
    IN  (IF Len(categoryIds) > 0 THEN "categoryId" :> ("$in" :> categoryIds) ELSE EmptyObj)
        @@ (IF Len(subcategoryIds) > 0 THEN "subcategoryId" :> ("$in" :> subcategoryIds) ELSE EmptyObj)
        @@ (IF minPrice # UNDEF \/ maxPrice # UNDEF
            THEN "price" :> PriceClause(minPrice, maxPrice) ELSE EmptyObj)

\* Lines 22-24.
Limit(in) == OrDefault(Number(in.per_page), 10)
Page(in)  == OrDefault(Number(in.page), 1)
Skip_fromPageItself(in) == Page(in) * Limit(in)
Skip(in)  == (Page(in) - 1) * Limit(in)

\* The stages of the pipeline of lines 50-87 that depend on the input.
Pipeline(in, search) ==
    [match |-> BuildFilter(search),
     sort  |-> <<SortTuple(search)[1], SortDirection(SortTuple(search)[2])>>,
     skip  |-> Skip(in),
     limit |-> Limit(in)]

Threw          == [kind |-> "threw", data |-> <<>>, pageCount |-> 0]
Returned(d, n) == [kind |-> "returned", data |-> d, pageCount |-> n]
EmptyPage      == Returned(<<>>, 0)
NoResult       == [kind |-> "none", data |-> <<>>, pageCount |-> 0]

\* What the catch block of lines 96-101 gives the caller.
CatchResult_rethrow == Threw
CatchResult == EmptyPage

\* One call of getProducts, to completion.  connOk, aggOk and cntOk are what
\* the three awaited operations do; rows and total what the database holds.
\* The database rejects a negative $skip and a non-positive $limit.
getProducts(connOk, aggOk, cntOk, rows, total) ==
    /\ pc = "start"
    /\ pc' = "done"
    /\ input' = input
    /\ UNCHANGED cacheVars
    /\ IF ~connOk
       THEN \* line 18 is outside the try block
            /\ result' = Threw
            /\ parsed' = "no"
            /\ aggregated' = <<>>
            /\ counted' = <<>>
            /\ failedStep' = "connectDb"
       ELSE IF getProductsSchemaThrows(input)
       THEN /\ result' = CatchResult
            /\ parsed' = "threw"
            /\ aggregated' = <<>>
            /\ counted' = <<>>
            /\ failedStep' = "parse"
       ELSE LET search == getProductsSchemaParse(input)
                pipe   == Pipeline(input, search)
                accept == aggOk /\ pipe.skip >= 0 /\ pipe.limit > 0
            IN  /\ parsed' = "ok"
                /\ aggregated' = <<pipe>>
                /\ counted' = IF accept THEN <<pipe.match>> ELSE <<>>
                /\ failedStep' = IF ~accept THEN "aggregate"
                                 ELSE IF ~cntOk THEN "countDocuments" ELSE "none"
                /\ result' = IF accept /\ cntOk
                             THEN Returned([i \in 1..rows |-> i], CeilDiv(total, pipe.limit))
                             ELSE CatchResult

GetProductsCall ==
    \E connOk \in connectDb, aggOk \in BOOLEAN, cntOk \in BOOLEAN,
       total \in 0..MaxTotal :
        \E rows \in 0..total :
            getProducts(connOk, aggOk, cntOk, rows, total)

(***************************************************************************)
(* Inputs of getProducts                                                   *)
(***************************************************************************)
PagingStrs == StrsUpTo({"0", "2", "-", "x"}, MaxNumLen) \cup {UNDEF, ARR}
RangeStrs  == StrsUpTo({"1", "-"}, MaxRangeLen) \cup {UNDEF, ARR}

SortWords == {<<"p","r","i","c","e">>, <<"a","s","c">>, <<"d","e","s","c">>, <<>>}

RECURSIVE JoinDots(_)
JoinDots(ps) == IF Len(ps) = 1 THEN ps[1]
                ELSE ps[1] \o <<".">> \o JoinDots(Tail(ps))

SortStrs == {JoinDots(ps) : ps \in UNION {[1..k -> SortWords] : k \in 1..MaxSortParts}}
            \cup {UNDEF, ARR}

IdleCache ==
    /\ cache = EmptyObj
    /\ clock = 0
    /\ ncalls = 0
    /\ stored = EmptyObj
    /\ last = EmptyObj

InitProducts(pages, perPages, sorts, cats, subs, ranges) ==
    /\ input \in [page : pages, per_page : perPages, sort : sorts,
                  categories : cats, subcategories : subs, price_range : ranges]
    /\ pc = "start"
    /\ result = NoResult
    /\ aggregated = <<>>
    /\ counted = <<>>
    /\ parsed = "no"
    /\ failedStep = "none"
    /\ IdleCache

InitPaging == InitProducts(PagingStrs, PagingStrs, {UNDEF}, {UNDEF}, {UNDEF}, {UNDEF})
InitFilter == InitProducts({UNDEF}, {UNDEF, <<"2">>}, {UNDEF},
                           {UNDEF, <<>>, <<"c", ".", "d">>}, {UNDEF, <<"s">>}, RangeStrs)
InitSort   == InitProducts({UNDEF, <<"2">>}, {UNDEF}, SortStrs, {UNDEF}, {UNDEF}, {UNDEF})

NextProducts == GetProductsCall

SpecPaging == InitPaging /\ [][NextProducts]_vars
SpecFilter == InitFilter /\ [][NextProducts]_vars
SpecSort   == InitSort /\ [][NextProducts]_vars

(***************************************************************************)
(* unstable_cache (next/cache) as the readers use it                       *)
(***************************************************************************)
REVALIDATE == 3600

ErrMsgs == {"timeout"}

\* The key of an entry: the wrapped callback (its source text, which does
\* not include the values it closes over) and the keyParts array.
CacheKey(fn, keyParts) == [fn |-> fn, parts |-> keyParts]

\* An entry is served while its age does not exceed the revalidate option.
Fresh_millis(entry, now) == now - entry.at <= REVALIDATE \div 1000
Fresh(entry, now) == now - entry.at <= REVALIDATE

CacheHit(key) == key \in DOMAIN cache /\ Fresh(cache[key], clock)

\* cache.set: the value, its time and the tags it can be invalidated by.
CacheSet_skipFailures(key, val, tags) ==
    IF "success" \in DOMAIN val /\ ~val.success THEN cache
    ELSE [k \in DOMAIN cache \cup {key} |->
            IF k = key THEN [val |-> val, at |-> clock, tags |-> tags] ELSE cache[k]]
CacheSet(key, val, tags) ==
    [k \in DOMAIN cache \cup {key} |->
        IF k = key THEN [val |-> val, at |-> clock, tags |-> tags] ELSE cache[k]]

\* ApiResponse (@/helpers/api-response)
ApiSuccess(message, data) == [success |-> TRUE, message |-> message, data |-> data]
ApiFailure(message)       == [success |-> FALSE, message |-> message, data |-> EmptyObj]

\* What the database gives for a query: the query's result over the
\* catalogue as it is at the time of the read.
DbResult(query) == [query |-> query, asOf |-> clock]

\* What a reader's callback returns ("value") or that it throws, given what
\* the database read does: "ok" or the message of the error it throws.
\* envelope: the callback has the try/catch of lines 244-253 / 277-282.
Callback_noCatch(envelope, okMessage, query, readOutcome) ==
    IF readOutcome = "ok"
    THEN [kind |-> "value",
          val  |-> IF envelope THEN ApiSuccess(okMessage, DbResult(query)) ELSE DbResult(query)]
    ELSE [kind |-> "throw", val |-> readOutcome]
Callback(envelope, okMessage, query, readOutcome) ==
    IF readOutcome = "ok"
    THEN [kind |-> "value",
          val  |-> IF envelope THEN ApiSuccess(okMessage, DbResult(query)) ELSE DbResult(query)]
    ELSE IF envelope
    THEN [kind |-> "value", val |-> ApiFailure(readOutcome)]
    ELSE [kind |-> "throw", val |-> readOutcome]

Prior(key) == IF key \in DOMAIN stored THEN <<stored[key]>> ELSE <<>>

\* await connectDb(); return await cache(callback, keyParts, {revalidate, tags})()
\* An entry past its window is recomputed by the call that finds it.
CachedRead(fn, args, keyParts, tags, envelope, okMessage, query, connOk, readOutcome) ==
    LET key == CacheKey(fn, keyParts)
        cb  == Callback(envelope, okMessage, query, readOutcome)
        call(reached, invoked, kind, val) ==
            [fn |-> fn, args |-> args, key |-> key, query |-> query, at |-> clock,
             reachedCache |-> reached, readInvoked |-> invoked,
             readOutcome |-> IF invoked THEN readOutcome ELSE "none",
             kind |-> kind, val |-> val, prior |-> Prior(key)]
    IN  /\ ncalls' = ncalls + 1
        /\ clock' = clock
        /\ UNCHANGED prodVars
        /\ IF ~connOk
           THEN /\ last' = call(FALSE, FALSE, "throw", "connectDb")
                /\ UNCHANGED <<cache, stored>>
           ELSE IF CacheHit(key)
           THEN /\ last' = call(TRUE, FALSE, "value", cache[key].val)
                /\ UNCHANGED <<cache, stored>>
           ELSE /\ last' = call(TRUE, TRUE, cb.kind, cb.val)
                /\ cache' = IF cb.kind = "value" THEN CacheSet(key, cb.val, tags) ELSE cache
                /\ stored' = [k \in DOMAIN stored \cup {key} |->
                                 IF k = key THEN [kind |-> cb.kind, val |-> cb.val, at |-> clock]
                                 ELSE stored[k]]

(***************************************************************************)
(* String literals of the readers                                          *)
(***************************************************************************)
Dash         == <<"-">>
S_featured   == <<"f","e","a","t","u","r","e","d","-","p","r","o","d","u","c","t","s">>
S_count      == <<"p","r","o","d","u","c","t","-","c","o","u","n","t","-">>
S_categories == <<"c","a","t","e","g","o","r","i","e","s">>
S_product    == <<"p","r","o","d","u","c","t","-">>
S_related    == <<"r","e","l","a","t","e","d","-","p","r","o","d","u","c","t","s","-">>
S_products   == <<"p","r","o","d","u","c","t","s","-">>
S_subcats    == <<"s","u","b","c","a","t","e","g","o","r","i","e","s">>

\* The characters of a searchParams key.
KeyChars(k) ==
    CASE k = "sex"         -> <<"s","e","x">>
      [] k = "subcategory" -> <<"s","u","b","c","a","t","e","g","o","r","y">>
      [] k = "gte"         -> <<"g","t","e">>
      [] k = "lte"         -> <<"l","t","e">>
      [] k = "color"       -> <<"c","o","l","o","r">>

(***************************************************************************)
(* The readers                                                             *)
(***************************************************************************)
getFeaturedProducts(connOk, readOutcome) ==
    /\ ncalls < MaxCalls
    /\ CachedRead("getFeaturedProducts", <<>>, <<S_featured>>, {S_featured}, FALSE, "",
               [op |-> "find.limit(8)", arg |-> <<>>], connOk, readOutcome)

getProductCountByCategory(categoryId, connOk, readOutcome) ==
    /\ ncalls < MaxCalls
    /\ CachedRead("getProductCountByCategory", <<categoryId>>,
               <<S_count \o categoryId>>, {S_count \o categoryId}, FALSE, "",
               [op |-> "countDocuments", arg |-> categoryId], connOk, readOutcome)

getCategories(connOk, readOutcome) ==
    /\ ncalls < MaxCalls
    /\ CachedRead("getCategories", <<>>, <<S_categories>>, {S_categories}, FALSE, "",
               [op |-> "aggregate", arg |-> <<>>], connOk, readOutcome)

getProductById(productId, connOk, readOutcome) ==
    /\ ncalls < MaxCalls
    /\ CachedRead("getProductById", <<productId>>,
               <<S_product \o productId>>, {S_product \o productId}, FALSE, "",
               [op |-> "findById", arg |-> productId], connOk, readOutcome)

getRelatedProducts(productId, connOk, readOutcome) ==
    /\ ncalls < MaxCalls
    /\ CachedRead("getRelatedProducts", <<productId>>,
               <<S_related \o productId>>, {S_related \o productId}, FALSE, "",
               [op |-> "findById+find.limit(4)", arg |-> productId], connOk, readOutcome)

\* A searchParams object: a function from the keys present to their strings.
Param(searchParams, k) == IF k \in DOMAIN searchParams THEN searchParams[k] ELSE UNDEF

\* `if (v)` for a string or undefined
Truthy(v) == v # UNDEF /\ v # <<>>

\* v || ''
OrEmpty(v) == IF Truthy(v) THEN v ELSE <<>>

\* The longest run of digits s starts with.
RECURSIVE DigitPrefix(_)
DigitPrefix(s) == IF s # <<>> /\ IsDigit(s[1]) THEN <<s[1]>> \o DigitPrefix(Tail(s)) ELSE <<>>

\* parseFloat(s): an optional sign and the digits that follow it; NaN when
\* there is no digit there.
parseFloat(s) ==
    LET neg  == s # <<>> /\ s[1] = "-"
        body == DigitPrefix(IF neg THEN Tail(s) ELSE s)
    IN  IF body = <<>> THEN NaN
        ELSE Num(IF neg THEN 0 - DecVal(body) ELSE DecVal(body))

\* matchConditions of lines 224-237
MatchConditions_definedNotTruthy(category, searchParams) ==
    LET sex         == Param(searchParams, "sex")
        subcategory == Param(searchParams, "subcategory")
        gte         == Param(searchParams, "gte")
        lte         == Param(searchParams, "lte")
        price       == (IF gte # UNDEF THEN "$gte" :> parseFloat(gte) ELSE EmptyObj)
                       @@ (IF lte # UNDEF THEN "$lte" :> parseFloat(lte) ELSE EmptyObj)
    IN  ("category.slug" :> category)
        @@ (IF sex # UNDEF THEN "sex" :> sex ELSE EmptyObj)
        @@ (IF subcategory # UNDEF THEN "subCategory.slug" :> subcategory ELSE EmptyObj)
        @@ (IF gte # UNDEF \/ lte # UNDEF THEN "price" :> price ELSE EmptyObj)
MatchConditions(category, searchParams) ==
    LET sex         == Param(searchParams, "sex")
        subcategory == Param(searchParams, "subcategory")
        gte         == Param(searchParams, "gte")
        lte         == Param(searchParams, "lte")
        price       == (IF Truthy(gte) THEN "$gte" :> parseFloat(gte) ELSE EmptyObj)
                       @@ (IF Truthy(lte) THEN "$lte" :> parseFloat(lte) ELSE EmptyObj)
    IN  ("category.slug" :> category)
        @@ (IF Truthy(sex) THEN "sex" :> sex ELSE EmptyObj)
        @@ (IF Truthy(subcategory) THEN "subCategory.slug" :> subcategory ELSE EmptyObj)
        @@ (IF Truthy(gte) \/ Truthy(lte) THEN "price" :> price ELSE EmptyObj)

\* cacheKey of line 240
ProductsCacheKey(category, searchParams) ==
    S_products \o category
      \o Dash \o OrEmpty(Param(searchParams, "sex"))
      \o Dash \o OrEmpty(Param(searchParams, "subcategory"))
      \o Dash \o OrEmpty(Param(searchParams, "gte"))
      \o Dash \o OrEmpty(Param(searchParams, "lte"))

\* tags of lines 258-263
ProductsTags(category, searchParams) ==
    {S_products \o category}
    \cup {S_products \o category \o Dash \o KeyChars(k) \o Dash \o searchParams[k] :
            k \in DOMAIN searchParams}

getProductsByCategory(category, searchParams, connOk, readOutcome) ==
    /\ ncalls < MaxCalls
    /\ CachedRead("getProductsByCategory", <<category, searchParams>>,
               <<ProductsCacheKey(category, searchParams)>>,
               ProductsTags(category, searchParams), TRUE, category,
               [op |-> "find", arg |-> MatchConditions(category, searchParams)],
               connOk, readOutcome)

getSubCategoriesOfCategory(slug, connOk, readOutcome) ==
    /\ ncalls < MaxCalls
    /\ CachedRead("getSubCategoriesOfCategory", <<slug>>, <<S_subcats>>, {S_subcats},
               TRUE, "Fetched subcategories!",
               [op |-> "find", arg |-> ("category.slug" :> slug)], connOk, readOutcome)

(***************************************************************************)
(* The environment of the readers                                          *)
(***************************************************************************)
\* revalidateTag(tag), called by collaborators outside this code: every
\* entry carrying the tag is dropped.
RevalidateTag(tag) ==
    /\ \E k \in DOMAIN cache : tag \in cache[k].tags
    /\ cache' = [k \in {x \in DOMAIN cache : tag \notin cache[x].tags} |-> cache[k]]
    /\ stored' = [k \in {x \in DOMAIN stored :
                            x \in DOMAIN cache => tag \notin cache[x].tags} |-> stored[k]]
    /\ UNCHANGED <<clock, ncalls, last>>
    /\ UNCHANGED prodVars

\* The clock advances by half a revalidation window at a time.
TickSeconds == REVALIDATE \div 2

Tick ==
    /\ clock + TickSeconds <= MaxTicks * TickSeconds
    /\ clock' = clock + TickSeconds
    /\ UNCHANGED <<cache, ncalls, stored, last>>
    /\ UNCHANGED prodVars

ProductIds  == {<<"1">>}
CategoryIds == {<<"1">>, <<"2">>}
Slugs       == {<<"a">>, <<"b">>}
\* (category, searchParams) pairs the category page is requested with.
CategoryRequests == {<<<<"a", "-", "b">>, "sex" :> <<"c">>>>,
                     <<<<"a">>, "sex" :> <<"b", "-", "c">>>>,
                     <<<<"a">>, "sex" :> <<"c">>>>}
ReadOutcomes == {"ok"} \cup ErrMsgs

\* Every tag a reader call of the model attaches to an entry.
AllTags ==
    {S_featured, S_categories, S_subcats}
    \cup {S_count \o id : id \in CategoryIds}
    \cup {S_product \o id : id \in ProductIds}
    \cup {S_related \o id : id \in ProductIds}
    \cup UNION {ProductsTags(req[1], req[2]) : req \in CategoryRequests}

Init ==
    /\ input = [p \in ParamNames |-> UNDEF]
    /\ pc = "done"
    /\ result = NoResult
    /\ aggregated = <<>>
    /\ counted = <<>>
    /\ parsed = "no"
    /\ failedStep = "none"
    /\ IdleCache

Next ==
    \/ \E c \in connectDb, r \in ReadOutcomes : getFeaturedProducts(c, r)
    \/ \E id \in CategoryIds, c \in connectDb, r \in ReadOutcomes : getProductCountByCategory(id, c, r)
    \/ \E c \in connectDb, r \in ReadOutcomes : getCategories(c, r)
    \/ \E id \in ProductIds, c \in connectDb, r \in ReadOutcomes : getProductById(id, c, r)
    \/ \E id \in ProductIds, c \in connectDb, r \in ReadOutcomes : getRelatedProducts(id, c, r)
    \/ \E req \in CategoryRequests, c \in connectDb, r \in ReadOutcomes :
          getProductsByCategory(req[1], req[2], c, r)
    \/ \E slug \in Slugs, c \in connectDb, r \in ReadOutcomes : getSubCategoriesOfCategory(slug, c, r)
    \/ \E tag \in AllTags : RevalidateTag(tag)
    \/ Tick

Spec == Init /\ [][Next]_vars

\* getProductsByCategory applied once to every searchParams object over the
\* keys and values below.
MatchKeys == {"sex", "subcategory", "gte", "lte", "color"}
MatchValues(k) ==
    CASE k = "sex"         -> {<<>>, <<"m">>}
      [] k = "subcategory" -> {<<>>, <<"s">>}
      [] k = "gte"         -> {<<>>, <<"1">>, <<"-">>, <<"1", "-">>}
      [] k = "lte"         -> {<<>>, <<"-", "2">>}
      [] k = "color"       -> {<<"r">>}
MatchParams ==
    UNION {{f \in [D -> UNION {MatchValues(k) : k \in MatchKeys}] :
              \A k \in D : f[k] \in MatchValues(k)} : D \in SUBSET MatchKeys}

NextMatch ==
    \E sp \in MatchParams, c \in connectDb, r \in ReadOutcomes :
        ncalls = 0 /\ getProductsByCategory(<<"a">>, sp, c, r)

SpecMatch == Init /\ [][NextMatch]_vars

(***************************************************************************)
(* Claims about the cache-wrapped readers                                  *)
(***************************************************************************)
PlainReaders    == {"getFeaturedProducts", "getProductCountByCategory", "getCategories",
                    "getProductById", "getRelatedProducts"}
EnvelopeReaders == {"getProductsByCategory", "getSubCategoriesOfCategory"}

\* The last call reached the cache with a key under which an earlier call
\* stored a value that is still within the revalidation window and was not
\* invalidated since.
ServedWithinWindow ==
    /\ ncalls > 0
    /\ last.reachedCache
    /\ last.prior # <<>>
    /\ last.prior[1].kind = "value"
    /\ last.at - last.prior[1].at <= REVALIDATE

\* C1: a call with key k that follows a completed call with key k, within
\* the revalidation window and with no tag invalidation in between, does
\* not invoke the database read and returns the value the first call stored.
C1_SecondCallServedFromCache ==
    ServedWithinWindow =>
        (~last.readInvoked /\ last.kind = "value" /\ last.val = last.prior[1].val)

C1_Witness ==
    /\ ServedWithinWindow
    /\ last.fn = "getProductById"
    /\ last.at > last.prior[1].at
    /\ ~last.readInvoked
    /\ last.val.asOf < last.at

\* C6: a database read that fails inside the callback gives, in the envelope
\* variants, the returned failure envelope with the error's message and, in
\* the plain variants, the error itself, thrown to the caller.
C6_FailurePolicy ==
    (ncalls > 0 /\ last.readInvoked /\ last.readOutcome # "ok") =>
        IF last.fn \in EnvelopeReaders
        THEN /\ last.kind = "value"
             /\ last.val.success = FALSE
             /\ last.val.message = last.readOutcome
        ELSE /\ last.kind = "throw"
             /\ last.val = last.readOutcome

C6_Witness ==
    /\ ncalls > 0 /\ last.readInvoked /\ last.readOutcome = "timeout"
    /\ last.fn = "getSubCategoriesOfCategory"
    /\ last.kind = "value"

\* C7: the match conditions of getProductsByCategory hold category.slug,
\* sex / subCategory.slug exactly when the parameter is a non-empty string,
\* a price clause exactly when gte or lte is non-empty, with the bounds
\* parsed from the parameters supplied, and nothing else.
C7_MatchConditions ==
    (ncalls > 0 /\ last.fn = "getProductsByCategory" /\ last.reachedCache) =>
        LET m   == last.query.arg
            cat == last.args[1]
            sp  == last.args[2]
            given(k) == k \in DOMAIN sp /\ sp[k] # <<>>
        IN  /\ DOMAIN m \subseteq {"category.slug", "sex", "subCategory.slug", "price"}
            /\ m["category.slug"] = cat
            /\ "sex" \in DOMAIN m <=> given("sex")
            /\ given("sex") => m["sex"] = sp["sex"]
            /\ "subCategory.slug" \in DOMAIN m <=> given("subcategory")
            /\ given("subcategory") => m["subCategory.slug"] = sp["subcategory"]
            /\ "price" \in DOMAIN m <=> (given("gte") \/ given("lte"))
            /\ "price" \in DOMAIN m =>
                  /\ "$gte" \in DOMAIN m["price"] <=> given("gte")
                  /\ "$lte" \in DOMAIN m["price"] <=> given("lte")
                  /\ given("gte") => m["price"]["$gte"] = parseFloat(sp["gte"])
                  /\ given("lte") => m["price"]["$lte"] = parseFloat(sp["lte"])

C7_Witness ==
    /\ ncalls > 0 /\ last.fn = "getProductsByCategory" /\ last.reachedCache
    /\ last.args[2] = [sex |-> <<"m">>, subcategory |-> <<>>, gte |-> <<"1", "-">>, color |-> <<"r">>]
    /\ last.query.arg = [sex |-> <<"m">>, price |-> ("$gte" :> Num(1))]
                            @@ ("category.slug" :> <<"a">>)

\* The catalogue data a returned value carries, if it carries any.
DataOf(val) ==
    IF "success" \in DOMAIN val
    THEN (IF val.success THEN <<val.data>> ELSE <<>>)
    ELSE <<val>>

\* C9: the value a call returns is a result of the read for that call's own
\* arguments.
C9_OwnArguments ==
    (ncalls > 0 /\ last.kind = "value" /\ DataOf(last.val) # <<>>) =>
        DataOf(last.val)[1].query = last.query

\* C10: in the envelope variants a stored failure envelope is what every
\* later call with the key returns within the window, without a new read;
\* in the plain variants a failed callback stores nothing and the next call
\* with the key invokes the read again.
C10_FailureCaching ==
    /\ (ServedWithinWindow /\ last.fn \in EnvelopeReaders /\ ~last.prior[1].val.success) =>
          (~last.readInvoked /\ last.kind = "value" /\ last.val = last.prior[1].val)
    /\ (ncalls > 0 /\ last.fn \in PlainReaders /\ last.readInvoked /\ last.kind = "throw") =>
          (last.key \in DOMAIN cache => cache[last.key].at < last.at)
    /\ (ncalls > 0 /\ last.fn \in PlainReaders /\ last.reachedCache
          /\ last.prior # <<>> /\ last.prior[1].kind = "throw") => last.readInvoked

C10_Witness ==
    /\ ServedWithinWindow
    /\ last.fn = "getProductsByCategory"
    /\ ~last.prior[1].val.success
    /\ last.at > last.prior[1].at
    /\ ~last.val.success


(***************************************************************************)
(* Claims about getProducts                                                *)
(***************************************************************************)

\* C2: whatever step fails (connectDb, schema validation, aggregate,
\* countDocuments), getProducts returns {data: [], pageCount: 0} and never
\* propagates the error.
C2_AlwaysEmptyOnError ==
    (pc = "done" /\ failedStep # "none") => result = EmptyPage

\* C3: when getProductsSchema.parse throws, getProducts returns exactly
\* {data: [], pageCount: 0} and issues neither aggregate nor countDocuments.
C3_InvalidGivesEmptyPage ==
    parsed = "threw" => (result = EmptyPage /\ aggregated = <<>> /\ counted = <<>>)

C3_Witness ==
    pc = "done" /\ parsed = "threw" /\ input.page = ARR /\ result.kind = "returned"

\* The part of s before its first "-" and the part after it (up to the next
\* "-"), <<>> when the part is absent.
PartPresent(s, i) == LET parts == Split(s, "-") IN i <= Len(parts) /\ parts[i] # <<>>

\* C4: for a price_range string the $match filter has price.$gte only when
\* the min part is present and price.$lte only when the max part is present;
\* an absent part contributes no clause.
C4_OnlyPresentParts ==
    (/\ pc = "done" /\ parsed = "ok" /\ IsString(input.price_range)
     /\ (PartPresent(input.price_range, 1) \/ PartPresent(input.price_range, 2))) =>
        LET f     == aggregated[1].match
            price == IF "price" \in DOMAIN f THEN f["price"] ELSE EmptyObj
        IN  /\ "$gte" \in DOMAIN price <=> PartPresent(input.price_range, 1)
            /\ "$lte" \in DOMAIN price <=> PartPresent(input.price_range, 2)
            /\ "$gte" \in DOMAIN price => price["$gte"] = Split(input.price_range, "-")[1]
            /\ "$lte" \in DOMAIN price => price["$lte"] = Split(input.price_range, "-")[2]

\* A parameter is numeric when it is a non-empty, optionally signed run of
\* digits.
IsNumeric(v) ==
    /\ IsString(v)
    /\ v # <<>>
    /\ \/ AllDigits(v)
       \/ (v[1] = "-" /\ Len(v) > 1 /\ AllDigits(Tail(v)))

NumericValue(v) == IF v[1] = "-" THEN 0 - DecVal(Tail(v)) ELSE DecVal(v)

\* C5 as stated: skip = (page-1)*limit with page / limit the numeric value
\* of the parameter, 1 / 10 when it is absent or non-numeric.
C5_SkipFromNumericValue ==
    (pc = "done" /\ parsed = "ok") =>
        LET page  == IF IsNumeric(input.page) THEN NumericValue(input.page) ELSE 1
            limit == IF IsNumeric(input.per_page) THEN NumericValue(input.per_page) ELSE 10
        IN  aggregated[1].skip = (page - 1) * limit /\ aggregated[1].limit = limit

\* C5 amended: the default also applies when the numeric value is 0.
C5_SkipWithZeroDefault ==
    (pc = "done" /\ parsed = "ok") =>
        LET page  == IF IsNumeric(input.page) /\ NumericValue(input.page) # 0
                     THEN NumericValue(input.page) ELSE 1
            limit == IF IsNumeric(input.per_page) /\ NumericValue(input.per_page) # 0
                     THEN NumericValue(input.per_page) ELSE 10
        IN  aggregated[1].skip = (page - 1) * limit /\ aggregated[1].limit = limit

C5_Witness ==
    /\ pc = "done" /\ parsed = "ok"
    /\ input.page = <<"0">> /\ input.per_page = <<"-", "2">>
    /\ aggregated[1].skip = 0

\* s starts with the characters of p.
StartsWith(s, p) == Len(p) <= Len(s) /\ SubSeq(s, 1, Len(p)) = p

\* f is the text of s before its first ".".
IsFieldOf(f, s) ==
    /\ StartsWith(s, f)
    /\ \A i \in 1..Len(f) : f[i] # "."
    /\ (Len(s) > Len(f) => s[Len(f) + 1] = ".")

\* The direction written in s is "asc": s is field.asc or field.asc.more
DirectionIsAsc(f, s) ==
    /\ StartsWith(s, f \o <<".", "a", "s", "c">>)
    /\ (Len(s) > Len(f) + 4 => s[Len(f) + 5] = ".")

\* C8: without a sort value the pipeline sorts by createdAt descending; with
\* "field.direction" it sorts by that field, ascending exactly when the
\* direction is "asc".
C8_SortTuple ==
    (pc = "done" /\ parsed = "ok") =>
        LET srt == aggregated[1].sort
        IN  IF input.sort = UNDEF
            THEN srt = <<<<"c","r","e","a","t","e","d","A","t">>, -1>>
            ELSE /\ IsFieldOf(srt[1], input.sort)
                 /\ srt[2] = (IF DirectionIsAsc(srt[1], input.sort) THEN 1 ELSE -1)

C8_Witness ==
    /\ pc = "done" /\ parsed = "ok"
    /\ input.sort = <<"p","r","i","c","e",".","a","s","c">>
    /\ aggregated[1].sort = <<<<"p","r","i","c","e">>, 1>>

====
